---- MODULE Spec2Model ----
(***************************************************************************)
(* Model of helpers/cf.py: the deployment script that fingerprints the     *)
(* compiled application, publishes it to S3 under its digest and creates   *)
(* or updates the CloudFormation stack.  One run of the script is one      *)
(* pass of a process through the program counter values below; every       *)
(* boto3 call is one atomic step that includes the script's handling of    *)
(* the call's answer.  The control plane (S3 buckets and objects,          *)
(* CloudFormation stacks) is shared state that outlives a run.             *)
(*                                                                         *)
(* Spec: any call may be answered with a transient error, a deployment     *)
(* may fail, a waiter may give up, the script may be killed.               *)
(* SpecReliable: every call is answered by the state of the resource; the  *)
(* script may still be killed.  SpecUninterrupted: SpecReliable without    *)
(* kills.  SpecHash: the fingerprint of every artifact up to MaxLen bytes. *)
(***************************************************************************)
EXTENDS Integers, Sequences, FiniteSets, TLC

\* ---------------------------------------------------------------- bounds
MaxRuns == 2          \* runs of the script in one behaviour when the
                      \* control plane may answer with transient errors
MaxRunsReliable == 3  \* runs in one behaviour when it may not
MaxRunsConc == 2      \* runs in one behaviour when two may be in flight
MaxLen == 5           \* longest artifact (in bytes) the fingerprint is checked on
ByteVals == 2         \* number of distinct byte values

\* ------------------------------------------------------------- constants
\* BLOCKSIZE = 65536 in the script; scaled down so that artifacts shorter
\* than, equal to a multiple of, and longer than one chunk are all small.
BLOCKSIZE == 2

Procs == {1, 2}
None == "None"
\* code_path does not exist or is unreadable
NoFile == <<-1>>
Account == "123456789012"
Apps == {"myapp"}
StackArgs == {None, "prod"}
Subnets == {"subnet-a", "subnet-b"}
Bytes == 0 .. (ByteVals - 1)

RECURSIVE SeqsUpTo(_)
SeqsUpTo(n) ==
  IF n = 0 THEN {<<>>}
  ELSE LET S == SeqsUpTo(n - 1)
       IN S \cup {Append(s, b) : s \in {t \in S : Len(t) = n - 1}, b \in Bytes}

\* artifacts the fingerprint is checked on
AllFiles == SeqsUpTo(MaxLen)
\* artifacts a deployment run may find at code_path: one shorter than a
\* chunk, one longer than a chunk
Files == {<<0>>, <<1, 0, 1>>}

\* ------------------------------------------------------------ fingerprint
\* hashlib.sha1(): the hasher state is folded over the bytes it is fed.
\* SHA-1 is taken as collision free, so the fold is an injective encoding
\* of the byte sequence absorbed so far (bijective base-(ByteVals+1)).
Sha1New == 0

RECURSIVE Sha1Update(_, _)
Sha1Update(h, buf) ==
  IF buf = <<>> THEN h
  ELSE Sha1Update(h * (ByteVals + 1) + (Head(buf) + 1), Tail(buf))

HexDigest(h) == h

\* afile.read(n) at position pos: at most n bytes, empty at end of file
Read(file, pos, n) ==
  SubSeq(file, pos + 1, IF pos + n <= Len(file) THEN pos + n ELSE Len(file))

\* buf = afile.read(BLOCKSIZE); while len(buf) > 0: update; read
RECURSIVE HashLoopTruncated(_, _, _)
HashLoopTruncated(file, pos, hasher) ==
  LET buf == Read(file, pos, BLOCKSIZE)
  IN IF Len(buf) = BLOCKSIZE
       THEN HashLoopTruncated(file, pos + Len(buf), Sha1Update(hasher, buf))
       ELSE hasher

RECURSIVE HashLoop(_, _, _)
HashLoop(file, pos, hasher) ==
  LET buf == Read(file, pos, BLOCKSIZE)
  IN IF Len(buf) > 0
       THEN HashLoop(file, pos + Len(buf), Sha1Update(hasher, buf))
       ELSE hasher

\* the digest the script computes for the file at code_path
Fingerprint(file) == HexDigest(HashLoop(file, 0, Sha1New))

\* hashing the whole byte sequence with one update
Sha1Whole(file) == HexDigest(Sha1Update(Sha1New, file))

\* ZipFile('code.zip').write(code_path, arcname="bootstrap")
Zip(file) == [arcname |-> "bootstrap", data |-> file]

BucketName(account, app) == <<account, app>>

\* bucket_name = f"{account_id}-{app_name}"
StackNames == Apps \cup (StackArgs \ {None})
ErrStatuses == {"403", "500"}

\* ------------------------------------------------------------------ state
VARIABLES
  buckets,     \* S3: names of the buckets that exist
  objects,     \* S3: function from <<bucket, key>> to the stored body
  cfStacks,    \* CloudFormation: stack name -> [status, live, target]
  active,      \* the processes that run the script
  runs,        \* number of runs started so far
  pc,          \* per process: the statement the run is at
  args,        \* per process: app_name, the file at code_path, --stack-name
  digest,      \* per process: hasher.hexdigest()
  account_id,  \* per process: sts get_caller_identity()["Account"]
  stacks,      \* per process: the stacks filtered by name (line 187)
  outputs,     \* per process: the outputs dictionary (line 207)
  err,         \* per process: the exception that ended the run
  log,         \* per process: the calls of the run and their answers
  existed,     \* per process: whether the target stack existed when queried
  prev,        \* summary of the run that ended last
  faults,      \* whether the control plane may answer with transient errors
  rollbacks,   \* whether a deployment may fail and be rolled back
  bucketCreates, \* bucket name -> number of create_bucket calls issued so far
  succeeded    \* arguments and outputs of the earlier runs that succeeded

vars == <<buckets, objects, cfStacks, active, runs, pc, args, digest,
          account_id, stacks, outputs, err, log, existed, prev, faults,
          rollbacks,
          bucketCreates, succeeded>>

cpVars == <<buckets, objects, cfStacks>>
envVars == <<active, runs, faults, rollbacks>>
ghostVars == <<bucketCreates, succeeded>>
BucketNames == {BucketName(Account, a) : a \in Apps}
localVars == <<args, digest, account_id, stacks, outputs, existed>>

NoDigest == -1
NoTemplate == [S3Bucket |-> <<>>, S3Key |-> NoDigest, Subnets |-> {}]
NoOutputs == [LoadbalancerDNSName |-> <<>>]
NoErr == [phase |-> None, exc |-> None, resp |-> None]
NoArgs == [app_name |-> None, file |-> NoFile, stack_name |-> None]
NoStack == [status |-> "ABSENT", live |-> NoTemplate, target |-> NoTemplate]
NoRun == [args |-> NoArgs, pc |-> "idle", log |-> <<>>, outputs |-> NoOutputs,
          err |-> NoErr, digest |-> NoDigest, account_id |-> None]

Ended == {"done", "failed", "aborted"}

\* the answers a call may get besides the one the resource's state
\* determines: transient and other errors of the control plane
Transient(answers) == IF faults THEN answers ELSE {}

\* the outcomes of a stack operation besides success
DeployFailure(outcomes) == IF faults \/ rollbacks THEN outcomes ELSE {}
InProgress == {"CREATE_IN_PROGRESS", "UPDATE_IN_PROGRESS"}

bucket_name(p) == BucketName(account_id[p], args[p].app_name)

\* stack_name = app_name if args.stack_name == None else args.stack_name
stack_name(p) ==
  IF args[p].stack_name = None THEN args[p].app_name ELSE args[p].stack_name

\* t.to_json(): the template refers to the code by (bucket, digest) and
\* lists the subnets of the account
Template(p) ==
  [S3Bucket |-> bucket_name(p), S3Key |-> digest[p], Subnets |-> Subnets]

\* the Outputs CloudFormation reports for a stack whose resources were
\* built from the template `live`
StackOutputs(name, live) ==
  [LoadbalancerArn |-> <<"arn", name>>,
   LoadbalancerDNSName |-> <<"dns", name>>,
   AppFunctionArn |-> <<"fn", name, live.S3Key>>]

Summary(p) ==
  [args |-> args[p], pc |-> pc[p], log |-> log[p], outputs |-> outputs[p],
   err |-> err[p], digest |-> digest[p], account_id |-> account_id[p]]

Calls(l, c) == {i \in 1 .. Len(l) : l[i][1] = c}
Issued(l, c) == Calls(l, c) # {}
Answered(l, c, r) == \E i \in Calls(l, c) : l[i][2] = r

\* the call is logged and the run goes on at `next`
Goto(p, call, resp, next) ==
  /\ pc' = [pc EXCEPT ![p] = next]
  /\ log' = [log EXCEPT ![p] = Append(@, <<call, resp>>)]
  /\ err' = err

RaiseAndRetry(p, call, resp, phase, exc) ==
  /\ pc' = pc
  /\ log' = [log EXCEPT ![p] = Append(@, <<call, resp>>)]
  /\ err' = err

\* the call is logged, the exception propagates and the script exits
Raise(p, call, resp, phase, exc) ==
  /\ pc' = [pc EXCEPT ![p] = "failed"]
  /\ log' = [log EXCEPT ![p] = Append(@, <<call, resp>>)]
  /\ err' = [err EXCEPT ![p] = [phase |-> phase, exc |-> exc, resp |-> resp]]

InitCommon ==
  /\ buckets = {}
  /\ objects = <<>>
  /\ cfStacks = [n \in StackNames |-> NoStack]
  /\ digest = [p \in Procs |-> NoDigest]
  /\ account_id = [p \in Procs |-> None]
  /\ stacks = [p \in Procs |-> {}]
  /\ outputs = [p \in Procs |-> NoOutputs]
  /\ err = [p \in Procs |-> NoErr]
  /\ log = [p \in Procs |-> <<>>]
  /\ existed = [p \in Procs |-> FALSE]
  /\ prev = NoRun
  /\ bucketCreates = [b \in BucketNames |-> 0]
  /\ succeeded = {}

\* one process runs the script again and again; nothing is deployed yet
Init ==
  /\ InitCommon
  /\ faults = TRUE
  /\ rollbacks = TRUE
  /\ active = {1}
  /\ runs = 0
  /\ pc = [p \in Procs |-> "idle"]
  /\ args = [p \in Procs |-> NoArgs]

\* the script is about to fingerprint some artifact
InitHash ==
  /\ InitCommon
  /\ faults = TRUE
  /\ rollbacks = TRUE
  /\ active = {1}
  /\ runs = 1
  /\ pc = [p \in Procs |-> IF p = 1 THEN "hash" ELSE "idle"]
  /\ \E f \in AllFiles \cup {NoFile} :
       args = [p \in Procs |->
                 IF p = 1 THEN [app_name |-> "myapp", file |-> f,
                                stack_name |-> None]
                 ELSE NoArgs]

\* the number of runs a behaviour is followed for
RunLimit ==
  IF Cardinality(active) > 1 THEN MaxRunsConc
  ELSE IF faults THEN MaxRuns ELSE MaxRunsReliable

\* ---------------------------------------------------------------- actions
\* lines 17-24: the script is started
StartRun(p) ==
  /\ p \in active
  /\ pc[p] \in Ended \cup {"idle"}
  /\ runs < RunLimit
  /\ runs' = runs + 1
  /\ \E a \in Apps, f \in Files \cup {NoFile}, sn \in StackArgs :
       args' = [args EXCEPT ![p] = [app_name |-> a, file |-> f,
                                    stack_name |-> sn]]
  /\ prev' = IF pc[p] = "idle" THEN prev ELSE Summary(p)
  /\ pc' = [pc EXCEPT ![p] = "hash"]
  /\ digest' = [digest EXCEPT ![p] = NoDigest]
  /\ account_id' = [account_id EXCEPT ![p] = None]
  /\ stacks' = [stacks EXCEPT ![p] = {}]
  /\ outputs' = [outputs EXCEPT ![p] = NoOutputs]
  /\ err' = [err EXCEPT ![p] = NoErr]
  /\ log' = [log EXCEPT ![p] = <<>>]
  /\ existed' = [existed EXCEPT ![p] = FALSE]
  /\ succeeded' =
       IF pc[p] = "done"
         THEN {r \in succeeded : r.args # args[p]}
                \cup {[args |-> args[p], outputs |-> outputs[p]]}
         ELSE succeeded
  /\ UNCHANGED <<cpVars, active, faults, rollbacks, bucketCreates>>

\* lines 26-35: open the artifact and hash it chunk by chunk
FingerprintStep(p) ==
  /\ p \in active
  /\ pc[p] = "hash"
  /\ IF args[p].file = NoFile
       THEN /\ Raise(p, "open", "missing", "fingerprint", "IOError")
            /\ digest' = digest
       ELSE /\ Goto(p, "open", "ok", "sts")
            /\ digest' = [digest EXCEPT ![p] = Fingerprint(args[p].file)]
  /\ UNCHANGED <<cpVars, envVars, ghostVars, args, account_id, stacks,
                 outputs, existed, prev>>

\* lines 38-42: account id from STS
GetCallerIdentity(p) ==
  /\ p \in active
  /\ pc[p] = "sts"
  /\ \E resp \in {"ok"} \cup Transient({"error"}) :
       IF resp = "ok"
         THEN /\ Goto(p, "get_caller_identity", resp, "head_bucket")
              /\ account_id' = [account_id EXCEPT ![p] = Account]
         ELSE /\ Raise(p, "get_caller_identity", resp, "identity", "ClientError")
              /\ account_id' = account_id
  /\ UNCHANGED <<cpVars, envVars, ghostVars, args, digest, stacks,
                 outputs, existed, prev>>

\* what S3 answers to head_bucket: 200 or 404 by the bucket's existence,
\* or some other error status
HeadBucketAnswers(b) ==
  {IF b \in buckets THEN "200" ELSE "404"} \cup Transient(ErrStatuses)

\* lines 44-47, 54-55: no exception: the bucket is there; a ClientError
\* with status 404: create it; any other ClientError: raise
BucketProbeCreatesAlways(status) == "create"
BucketProbe(status) ==
  IF status = "200" THEN "exists"
  ELSE IF status = "404" THEN "create"
  ELSE "raise"

\* lines 44-47, 54-55: head_bucket and what the script does on its answer
HeadBucket(p) ==
  /\ p \in active
  /\ pc[p] = "head_bucket"
  /\ \E status \in HeadBucketAnswers(bucket_name(p)) :
       IF BucketProbe(status) = "exists"
         THEN Goto(p, "head_bucket", status, "head_object")
         ELSE IF BucketProbe(status) = "create"
           THEN Goto(p, "head_bucket", status, "create_bucket")
           ELSE Raise(p, "head_bucket", status, "bucket", "ClientError")
  /\ UNCHANGED <<cpVars, envVars, ghostVars, localVars, prev>>

\* lines 48-53: create_bucket
CreateBucket(p) ==
  /\ p \in active
  /\ pc[p] = "create_bucket"
  /\ \E resp \in {IF bucket_name(p) \in buckets THEN "exists" ELSE "ok"}
                    \cup Transient({"error"}) :
       IF resp = "ok"
         THEN /\ Goto(p, "create_bucket", resp, "head_object")
              /\ buckets' = buckets \cup {bucket_name(p)}
         ELSE /\ Raise(p, "create_bucket", resp, "bucket", "ClientError")
              /\ buckets' = buckets
  /\ bucketCreates' = [bucketCreates EXCEPT ![bucket_name(p)] = @ + 1]
  /\ UNCHANGED <<objects, cfStacks, envVars, succeeded, localVars, prev>>

HeadObjectAnswers(b, k) ==
  {IF <<b, k>> \in DOMAIN objects THEN "200" ELSE "404"}
    \cup Transient(ErrStatuses)

\* lines 57-60, 69-70: no exception: the object is there; a ClientError
\* with status 404: upload it; any other ClientError: raise
ObjectProbeNeverUploads(status) ==
  IF status \in {"200", "404"} THEN "exists" ELSE "raise"
ObjectProbeUploadsAlways(status) == "upload"
ObjectProbeUploadsOnError(status) ==
  IF status = "200" THEN "exists" ELSE "upload"
ObjectProbe(status) ==
  IF status = "200" THEN "exists"
  ELSE IF status = "404" THEN "upload"
  ELSE "raise"

\* lines 57-60, 69-70: head_object and what the script does on its answer
HeadObject(p) ==
  /\ p \in active
  /\ pc[p] = "head_object"
  /\ \E status \in HeadObjectAnswers(bucket_name(p), digest[p]) :
       IF ObjectProbe(status) = "exists"
         THEN Goto(p, "head_object", status, "describe_subnets")
         ELSE IF ObjectProbe(status) = "upload"
           THEN Goto(p, "head_object", status, "put_object")
           ELSE Raise(p, "head_object", status, "publish", "ClientError")
  /\ UNCHANGED <<cpVars, envVars, ghostVars, localVars, prev>>

\* lines 61-68: zip the artifact and put it under its digest
PutObject(p) ==
  /\ p \in active
  /\ pc[p] = "put_object"
  /\ \E resp \in {IF bucket_name(p) \in buckets THEN "ok" ELSE "no_bucket"}
                    \cup Transient({"error"}) :
       IF resp = "ok"
         THEN /\ Goto(p, "put_object", resp, "describe_subnets")
              /\ objects' = (<<bucket_name(p), digest[p]>> :> Zip(args[p].file))
                              @@ objects
         ELSE /\ Raise(p, "put_object", resp, "publish", "ClientError")
              /\ objects' = objects
  /\ UNCHANGED <<buckets, cfStacks, envVars, ghostVars, localVars, prev>>

\* lines 122-123: ec2 describe_subnets, used by the load balancer
DescribeSubnets(p) ==
  /\ p \in active
  /\ pc[p] = "describe_subnets"
  /\ \E resp \in {"ok"} \cup Transient({"error"}) :
       IF resp = "ok"
         THEN Goto(p, "describe_subnets", resp, "validate_template")
         ELSE Raise(p, "describe_subnets", resp, "template", "ClientError")
  /\ UNCHANGED <<cpVars, envVars, ghostVars, localVars, prev>>

\* lines 179-181: validate_template
ValidateTemplate(p) ==
  /\ p \in active
  /\ pc[p] = "validate_template"
  /\ \E resp \in {"ok"} \cup Transient({"error"}) :
       IF resp = "ok"
         THEN Goto(p, "validate_template", resp, "describe_stacks")
         ELSE Raise(p, "validate_template", resp, "template", "ClientError")
  /\ UNCHANGED <<cpVars, envVars, ghostVars, localVars, prev>>

\* cf.describe_stacks()["Stacks"]: every stack of the account that is not
\* deleted, whatever its status
ListedStacks ==
  {[StackName |-> n, StackStatus |-> cfStacks[n].status] :
     n \in {m \in StackNames : cfStacks[m].status # "ABSENT"}}

\* line 187: [x for x in ... if x["StackName"] == stack_name]
FilterStacksUnfiltered(listed, name) == listed
FilterStacks(listed, name) == {x \in listed : x.StackName = name}

\* lines 185-187: list the stacks and keep those with the target name
DescribeStacks(p) ==
  /\ p \in active
  /\ pc[p] = "describe_stacks"
  /\ \E resp \in {"ok"} \cup Transient({"error"}) :
       IF resp = "ok"
         THEN /\ Goto(p, "describe_stacks", resp, "decide")
              /\ stacks' = [stacks EXCEPT
                              ![p] = FilterStacks(ListedStacks, stack_name(p))]
              /\ existed' = [existed EXCEPT
                               ![p] = cfStacks[stack_name(p)].status # "ABSENT"]
         ELSE /\ Raise(p, "describe_stacks", resp, "query", "ClientError")
              /\ UNCHANGED <<stacks, existed>>
  /\ UNCHANGED <<cpVars, envVars, ghostVars, args, digest, account_id,
                 outputs, prev>>

\* what CloudFormation answers to update_stack for the stack in state s
UpdateAnswer(s, template) ==
  IF s.status = "ABSENT" THEN "does_not_exist"
  ELSE IF s.status \in {"STABLE", "UPDATE_FAILED"}
    THEN IF s.live = template THEN "no_updates" ELSE "accepted"
    ELSE "invalid_state"

\* line 196: the message that is not an error
IsNoUpdateAny(resp) == resp # "accepted"
IsNoUpdateNever(resp) == FALSE
IsNoUpdate(resp) == resp = "no_updates"

\* lines 189-192, 195-199: update_stack and the except clause
UpdateStack(p) ==
  /\ p \in active
  /\ pc[p] = "decide"
  /\ Cardinality(stacks[p]) = 1
  /\ \E resp \in {UpdateAnswer(cfStacks[stack_name(p)], Template(p))}
                    \cup Transient({"error"}) :
       IF resp = "accepted"
         THEN /\ Goto(p, "update_stack", resp, "wait_update")
              /\ cfStacks' = [cfStacks EXCEPT
                   ![stack_name(p)] = [@ EXCEPT !.status = "UPDATE_IN_PROGRESS",
                                                !.target = Template(p)]]
         ELSE /\ IF IsNoUpdate(resp)
                   THEN Goto(p, "update_stack", resp, "outputs")
                   ELSE Raise(p, "update_stack", resp, "update", "ClientError")
              /\ cfStacks' = cfStacks
  /\ UNCHANGED <<buckets, objects, envVars, ghostVars, localVars, prev>>

\* what the waiter's polling ends with for the stack in state s: success,
\* a terminal failure, or giving up after the maximal number of attempts
\* while the operation is still in progress
WaitAnswersUncapped(s) ==
  IF s.status = "STABLE" THEN {"success"}
  ELSE IF s.status \in InProgress THEN {}
  ELSE {"failure"}
WaitAnswers(s) ==
  IF s.status = "STABLE" THEN {"success"}
  ELSE IF s.status \in InProgress THEN Transient({"timeout"})
  ELSE {"failure"}

\* waiter.wait returns on success and raises a WaiterError otherwise
WaiterRaisesNever(resp) == FALSE
WaiterRaises(resp) == resp # "success"

\* lines 193-194, 195-199: the update waiter; a WaiterError is not a
\* ClientError, so the except clause does not apply to it
WaitUpdate(p) ==
  /\ p \in active
  /\ pc[p] = "wait_update"
  /\ \E resp \in WaitAnswers(cfStacks[stack_name(p)]) :
       IF ~WaiterRaises(resp)
         THEN Goto(p, "wait_update", resp, "outputs")
         ELSE Raise(p, "wait_update", resp, "update", "WaiterError")
  /\ UNCHANGED <<cpVars, envVars, ghostVars, localVars, prev>>

CreateAnswerAlwaysAccepts(s) == "accepted"
CreateAnswer(s) ==
  IF s.status = "ABSENT" THEN "accepted" ELSE "already_exists"

\* lines 200-202: create_stack
CreateStack(p) ==
  /\ p \in active
  /\ pc[p] = "decide"
  /\ Cardinality(stacks[p]) # 1
  /\ \E resp \in {CreateAnswer(cfStacks[stack_name(p)])}
                    \cup Transient({"error"}) :
       IF resp = "accepted"
         THEN /\ Goto(p, "create_stack", resp, "wait_create")
              /\ cfStacks' = [cfStacks EXCEPT
                   ![stack_name(p)] = [status |-> "CREATE_IN_PROGRESS",
                                       live |-> NoTemplate,
                                       target |-> Template(p)]]
         ELSE /\ Raise(p, "create_stack", resp, "create", "ClientError")
              /\ cfStacks' = cfStacks
  /\ UNCHANGED <<buckets, objects, envVars, ghostVars, localVars, prev>>

WaitCreateCleaningUp(p) ==
  /\ p \in active
  /\ pc[p] = "wait_create"
  /\ \E resp \in WaitAnswers(cfStacks[stack_name(p)]) :
       IF ~WaiterRaises(resp)
         THEN /\ Goto(p, "wait_create", resp, "outputs")
              /\ cfStacks' = cfStacks
         ELSE /\ Raise(p, "wait_create", resp, "create", "WaiterError")
              /\ cfStacks' = [cfStacks EXCEPT ![stack_name(p)] = NoStack]
  /\ UNCHANGED <<buckets, objects, envVars, ghostVars, localVars, prev>>

\* lines 203-204: the create waiter
WaitCreate(p) ==
  /\ p \in active
  /\ pc[p] = "wait_create"
  /\ \E resp \in WaitAnswers(cfStacks[stack_name(p)]) :
       IF ~WaiterRaises(resp)
         THEN Goto(p, "wait_create", resp, "outputs")
         ELSE Raise(p, "wait_create", resp, "create", "WaiterError")
  /\ UNCHANGED <<cpVars, envVars, ghostVars, localVars, prev>>

\* what describe_stacks(StackName=...) answers for the stack in state s
OutputsAnswer(s) ==
  IF s.status = "ABSENT" THEN "does_not_exist"
  ELSE IF s.live = NoTemplate THEN "no_outputs"
  ELSE "ok"

\* lines 206-209: read the outputs and print the address
DescribeOutputs(p) ==
  /\ p \in active
  /\ pc[p] = "outputs"
  /\ \E resp \in {OutputsAnswer(cfStacks[stack_name(p)])}
                    \cup Transient({"error"}) :
       IF resp = "ok"
         THEN /\ Goto(p, "describe_stack", resp, "done")
              /\ outputs' = [outputs EXCEPT
                   ![p] = StackOutputs(stack_name(p), cfStacks[stack_name(p)].live)]
         ELSE /\ Raise(p, "describe_stack", resp, "outputs",
                       IF resp = "no_outputs" THEN "KeyError" ELSE "ClientError")
              /\ outputs' = outputs
  /\ UNCHANGED <<cpVars, envVars, ghostVars, args, digest, account_id,
                 stacks, existed, prev>>

\* the script is killed between two calls
Crash(p) ==
  /\ p \in active
  /\ pc[p] \notin Ended \cup {"idle"}
  /\ pc' = [pc EXCEPT ![p] = "aborted"]
  /\ UNCHANGED <<cpVars, envVars, ghostVars, localVars, err, log, prev>>

\* CloudFormation finishes the operation in progress on stack n: the
\* resources are built from the submitted template, or the operation
\* fails and is rolled back
StackProgress(n) ==
  /\ cfStacks[n].status \in InProgress
  /\ \E ok \in {TRUE} \cup DeployFailure({FALSE}) :
       cfStacks' = [cfStacks EXCEPT ![n] =
         IF ok
           THEN [status |-> "STABLE", live |-> @.target, target |-> NoTemplate]
           ELSE [status |-> IF @.status = "CREATE_IN_PROGRESS"
                              THEN "CREATE_FAILED" ELSE "UPDATE_FAILED",
                 live |-> @.live, target |-> NoTemplate]]
  /\ UNCHANGED <<buckets, objects, envVars, ghostVars, pc, localVars, err,
                 log, prev>>

Next ==
  \/ \E p \in Procs : StartRun(p)
  \/ \E p \in Procs : FingerprintStep(p)
  \/ \E p \in Procs : GetCallerIdentity(p)
  \/ \E p \in Procs : HeadBucket(p)
  \/ \E p \in Procs : CreateBucket(p)
  \/ \E p \in Procs : HeadObject(p)
  \/ \E p \in Procs : PutObject(p)
  \/ \E p \in Procs : DescribeSubnets(p)
  \/ \E p \in Procs : ValidateTemplate(p)
  \/ \E p \in Procs : DescribeStacks(p)
  \/ \E p \in Procs : UpdateStack(p)
  \/ \E p \in Procs : WaitUpdate(p)
  \/ \E p \in Procs : CreateStack(p)
  \/ \E p \in Procs : WaitCreate(p)
  \/ \E p \in Procs : DescribeOutputs(p)
  \/ \E p \in Procs : Crash(p)
  \/ \E n \in StackNames : StackProgress(n)

Spec == Init /\ [][Next]_vars

\* the same program against a control plane that answers every call by the
\* state of the resource: no transient error, no failed deployment, no
\* waiter giving up
InitReliable ==
  /\ InitCommon
  /\ faults = FALSE
  /\ rollbacks = FALSE
  /\ active = {1}
  /\ runs = 0
  /\ pc = [p \in Procs |-> "idle"]
  /\ args = [p \in Procs |-> NoArgs]

SpecReliable == InitReliable /\ [][Next]_vars

\* every call is answered by the state of the resource, but a deployment
\* may fail and be rolled back
InitRollbacks ==
  /\ InitCommon
  /\ faults = FALSE
  /\ rollbacks = TRUE
  /\ active = {1}
  /\ runs = 0
  /\ pc = [p \in Procs |-> "idle"]
  /\ args = [p \in Procs |-> NoArgs]

SpecRollbacks == InitRollbacks /\ [][Next]_vars

\* no run is killed
NextUninterrupted ==
  \/ \E p \in Procs : StartRun(p)
  \/ \E p \in Procs : FingerprintStep(p)
  \/ \E p \in Procs : GetCallerIdentity(p)
  \/ \E p \in Procs : HeadBucket(p)
  \/ \E p \in Procs : CreateBucket(p)
  \/ \E p \in Procs : HeadObject(p)
  \/ \E p \in Procs : PutObject(p)
  \/ \E p \in Procs : DescribeSubnets(p)
  \/ \E p \in Procs : ValidateTemplate(p)
  \/ \E p \in Procs : DescribeStacks(p)
  \/ \E p \in Procs : UpdateStack(p)
  \/ \E p \in Procs : WaitUpdate(p)
  \/ \E p \in Procs : CreateStack(p)
  \/ \E p \in Procs : WaitCreate(p)
  \/ \E p \in Procs : DescribeOutputs(p)
  \/ \E n \in StackNames : StackProgress(n)

SpecUninterrupted == InitReliable /\ [][NextUninterrupted]_vars

\* two invocations of the script may be in flight at the same time
InitConc ==
  /\ InitCommon
  /\ faults = FALSE
  /\ rollbacks = TRUE
  /\ active = Procs
  /\ runs = 0
  /\ pc = [p \in Procs |-> "idle"]
  /\ args = [p \in Procs |-> NoArgs]

SpecConc == InitConc /\ [][NextUninterrupted]_vars

\* the next statement of the run of process p: the interpreter executes
\* it, and the call it makes returns or raises
RunStep(p) ==
  \/ FingerprintStep(p)
  \/ GetCallerIdentity(p)
  \/ HeadBucket(p)
  \/ CreateBucket(p)
  \/ HeadObject(p)
  \/ PutObject(p)
  \/ DescribeSubnets(p)
  \/ ValidateTemplate(p)
  \/ DescribeStacks(p)
  \/ UpdateStack(p)
  \/ WaitUpdate(p)
  \/ CreateStack(p)
  \/ WaitCreate(p)
  \/ DescribeOutputs(p)

\* a run that is not killed goes on to its next statement; nothing is
\* assumed of the stack operation the run may be waiting for, since the
\* waiter gives up after its maximal number of attempts
SpecLive == Init /\ [][Next]_vars /\ \A p \in Procs : WF_vars(RunStep(p))

NextHash == \E p \in Procs : FingerprintStep(p)

SpecHash == InitHash /\ [][NextHash]_vars

TypeOK ==
  /\ runs \in 0 .. RunLimit
  /\ \A p \in Procs : pc[p] \in
       {"idle", "hash", "sts", "head_bucket", "create_bucket", "head_object",
        "put_object", "describe_subnets", "validate_template",
        "describe_stacks", "decide", "wait_update", "wait_create", "outputs",
        "done", "failed", "aborted"}

\* ----------------------------------------------------------- properties
NCalls(l, c) == Cardinality(Calls(l, c))
LocationOf(account, a, d) == <<BucketName(account, a), d>>

\* the publish step of a run ran to its end: the object was found, or it
\* was uploaded
PublishDone(l) ==
  Answered(l, "head_object", "200") \/ Answered(l, "put_object", "ok")

\* the run before this one published the same artifact to the same bucket
SamePublication(p) ==
  /\ prev.pc # "idle"
  /\ prev.args.file = args[p].file
  /\ prev.args.app_name = args[p].app_name
  /\ prev.account_id = account_id[p]

\* C1: two consecutive publish steps that run to their end with the same
\* artifact and bucket upload once in total if the first found the key
\* absent and not at all if it found it present; the second never uploads,
\* and both name the same (bucket, digest) location, where the object is.
C1_PublishTwiceUploadsOnce ==
  \A p \in active :
    (SamePublication(p) /\ PublishDone(prev.log) /\ PublishDone(log[p]))
    => /\ NCalls(prev.log, "put_object") + NCalls(log[p], "put_object")
            = IF Answered(prev.log, "head_object", "404") THEN 1 ELSE 0
       /\ ~Issued(log[p], "put_object")
       /\ LocationOf(account_id[p], args[p].app_name, digest[p])
            = LocationOf(prev.account_id, prev.args.app_name, prev.digest)
       /\ <<bucket_name(p), digest[p]>> \in DOMAIN objects

C1_Witness ==
  \E p \in active :
    /\ SamePublication(p)
    /\ Answered(prev.log, "put_object", "ok")
    /\ Answered(log[p], "head_object", "200")

\* a run has seen the bucket: its head_bucket or its create_bucket succeeded
BucketSeen(l) ==
  Answered(l, "head_bucket", "200") \/ Answered(l, "create_bucket", "ok")

C3_NoUpdatesIsSuccess ==
  \A p \in active :
    Answered(log[p], "update_stack", "no_updates")
    => /\ existed[p]
       /\ ~Issued(log[p], "wait_update")
       /\ pc[p] \in {"outputs", "done", "aborted"}
       /\ err[p] = NoErr
       /\ cfStacks[stack_name(p)].status = "STABLE"
       /\ pc[p] = "done"
            => /\ Answered(log[p], "describe_stack", "ok")
               /\ outputs[p] = StackOutputs(stack_name(p),
                                            cfStacks[stack_name(p)].live)

C3_Witness ==
  \E p \in active :
    /\ Answered(log[p], "update_stack", "no_updates")
    /\ pc[p] = "done"
    /\ outputs[p] # NoOutputs

\* the run has listed the stacks and has gone past the branch of line 189
PastDecision(p) ==
  /\ Answered(log[p], "describe_stacks", "ok")
  /\ pc[p] \notin {"decide", "aborted"}

\* C4: a run submits at most one of create_stack and update_stack, exactly
\* one once it is past the decision; it submits create_stack only if no
\* stack of the target name existed when the stacks were listed, and
\* update_stack only if one did.
C4_OneVerbByExactName ==
  \A p \in active :
    /\ NCalls(log[p], "create_stack") + NCalls(log[p], "update_stack") <= 1
    /\ PastDecision(p)
         => NCalls(log[p], "create_stack") + NCalls(log[p], "update_stack") = 1
    /\ Issued(log[p], "create_stack") => ~existed[p]
    /\ Issued(log[p], "update_stack") => existed[p]

C4_Witness ==
  \E p \in active, n \in StackNames :
    /\ n # stack_name(p)
    /\ cfStacks[n].status # "ABSENT"
    /\ Issued(log[p], "create_stack")

\* the update of the run failed: update_stack was rejected with something
\* else than the no-op message, or the wait did not end in success
UpdateFailed(l) ==
  \/ \E i \in Calls(l, "update_stack") : l[i][2] \notin {"accepted", "no_updates"}
  \/ \E i \in Calls(l, "wait_update") : l[i][2] # "success"

NeverReadOutputs(p) ==
  /\ ~Issued(log[p], "describe_stack")
  /\ outputs[p] = NoOutputs
  /\ pc[p] # "done"

\* C5: when the update of a run failed for any reason but the no-op
\* message, the run has ended with the error raised in the update branch;
\* it has not read the outputs and has not reported success.
C5_UpdateFailureIsFatal ==
  \A p \in active :
    UpdateFailed(log[p])
    => /\ pc[p] = "failed"
       /\ err[p].phase = "update"
       /\ NeverReadOutputs(p)

C5_Witness ==
  \E p \in active :
    /\ Answered(log[p], "wait_update", "failure")
    /\ cfStacks[stack_name(p)].status = "UPDATE_FAILED"
    /\ pc[p] = "failed"

CreateFailed(l) ==
  \/ \E i \in Calls(l, "create_stack") : l[i][2] # "accepted"
  \/ \E i \in Calls(l, "wait_create") : l[i][2] # "success"

\* C6: when create_stack was rejected or the creation ended in a terminal
\* failure, the run has ended with the error raised in the create branch;
\* it has not read the outputs and has not reported success.
C6_CreateFailureIsFatal ==
  \A p \in active :
    CreateFailed(log[p])
    => /\ ~existed[p]
       /\ pc[p] = "failed"
       /\ err[p].phase = "create"
       /\ NeverReadOutputs(p)

C6_Witness ==
  \E p \in active :
    /\ Answered(log[p], "wait_create", "failure")
    /\ cfStacks[stack_name(p)].status = "CREATE_FAILED"
    /\ pc[p] = "failed"

StackCallIssued(l) == Issued(l, "create_stack") \/ Issued(l, "update_stack")

\* C7 as stated: after either probe fails with a status other than 404 the
\* run has aborted with that error and has issued no create_bucket, no
\* put_object and no stack create or update.
C7_ProbeErrorNoMutationAtAll ==
  \A p \in active : \A c \in {"head_bucket", "head_object"} :
    \A st \in ErrStatuses :
      Answered(log[p], c, st)
      => /\ pc[p] = "failed"
         /\ err[p].resp = st
         /\ ~Issued(log[p], "create_bucket")
         /\ ~Issued(log[p], "put_object")
         /\ ~StackCallIssued(log[p])

\* C7 as amended: after either probe fails with a status other than 404 the
\* run has aborted with that error and the probe is its last call: no
\* create_bucket after a failed head_bucket, no put_object and no stack
\* create or update after either.  A create_bucket issued before a failed
\* head_object stands.
C7_ProbeErrorAborts ==
  \A p \in active : \A c \in {"head_bucket", "head_object"} :
    \A st \in ErrStatuses :
      Answered(log[p], c, st)
      => /\ pc[p] = "failed"
         /\ err[p].resp = st
         /\ log[p][Len(log[p])] = <<c, st>>
         /\ c = "head_bucket" => ~Issued(log[p], "create_bucket")
         /\ ~Issued(log[p], "put_object")
         /\ ~StackCallIssued(log[p])

C7_Witness ==
  \E p \in active : \E st \in ErrStatuses :
    /\ Answered(log[p], "head_object", st)
    /\ Answered(log[p], "create_bucket", "ok")
    /\ pc[p] = "failed"

\* C8: a run that follows a killed run with the same arguments (and an
\* artifact that is there) does not fail.
C8_RerunAfterAbortSucceeds ==
  \A p \in active :
    (prev.pc = "aborted" /\ prev.args = args[p] /\ args[p].file # NoFile)
    => pc[p] # "failed"

\* no call of the run changed a bucket, an object or a stack
NoMutation(l) ==
  /\ ~Issued(l, "create_bucket")
  /\ ~Issued(l, "put_object")
  /\ ~Issued(l, "create_stack")
  /\ ~Answered(l, "update_stack", "accepted")

\* C9 as stated: any run whose arguments are those of an earlier run that
\* succeeded does not fail, issues no create_bucket, put_object or
\* create_stack, changes no resource, and returns that run's outputs.
C9_AnyLaterRunIsNoOp ==
  \A p \in active : \A r \in succeeded :
    (r.args = args[p] /\ pc[p] # "idle")
    => /\ pc[p] # "failed"
       /\ NoMutation(log[p])
       /\ pc[p] = "done" => outputs[p] = r.outputs

\* C9 as amended: a run that directly follows a run that succeeded with
\* the same arguments (so no run with other arguments came in between)
\* does not fail, issues no create_bucket, put_object or create_stack,
\* changes no resource, and returns the same outputs.
C9_RepeatedRunIsNoOp ==
  \A p \in active :
    (prev.pc = "done" /\ prev.args = args[p])
    => /\ pc[p] # "failed"
       /\ NoMutation(log[p])
       /\ pc[p] = "done" => outputs[p] = prev.outputs /\ outputs[p] # NoOutputs

C9_Witness ==
  \E p \in active :
    /\ prev.pc = "done"
    /\ prev.args = args[p]
    /\ pc[p] = "done"
    /\ Answered(log[p], "update_stack", "no_updates")

\* C10: the digest of a fingerprinted artifact is the hash of its whole
\* byte sequence, whatever its length relative to BLOCKSIZE, and no
\* artifact with other bytes has that digest.
C10_DigestOfContent ==
  \A p \in active :
    (pc[p] = "sts" /\ args[p].file # NoFile)
    => /\ digest[p] = Sha1Whole(args[p].file)
       /\ \A g \in AllFiles :
            g # args[p].file => Fingerprint(g) # digest[p]

C10_Witness ==
  \E p \in active :
    /\ pc[p] = "sts"
    /\ Len(args[p].file) > BLOCKSIZE
    /\ Len(args[p].file) % BLOCKSIZE # 0
    /\ digest[p] # NoDigest

\* the run is about to read the outputs, or has read them
AtOutputs(p) ==
  pc[p] = "outputs" \/ Answered(log[p], "describe_stack", "ok")

\* the wait of the run ended in success, or its update was a no-op
Converged(l) ==
  \/ Answered(l, "wait_create", "success")
  \/ Answered(l, "wait_update", "success")
  \/ Answered(l, "update_stack", "no_updates")

\* C11 as stated: the outputs are read only after the wait ended in success
\* or after the no-op answer, and only while the stack is STABLE; after an
\* update that was carried out they are those of the updated stack.
C11_OutputsOnlyWhenStable ==
  \A p \in active :
    AtOutputs(p)
    => /\ Converged(log[p])
       /\ cfStacks[stack_name(p)].status = "STABLE"
       /\ Answered(log[p], "describe_stack", "ok")
            => outputs[p] = StackOutputs(stack_name(p), Template(p))

\* C11 as amended: the outputs are read only after the wait ended in
\* success or after the no-op answer; the stack is then never absent, in
\* transition or CREATE_FAILED: it is STABLE, or, on the no-op path only,
\* in the rolled-back state a failed update left (UPDATE_FAILED), and its
\* resources are those of the run's template, whose outputs are returned.
C11_OutputsAfterConvergence ==
  \A p \in active :
    AtOutputs(p)
    => /\ Converged(log[p])
       /\ cfStacks[stack_name(p)].status \in {"STABLE", "UPDATE_FAILED"}
       /\ cfStacks[stack_name(p)].status = "UPDATE_FAILED"
            => Answered(log[p], "update_stack", "no_updates")
       /\ cfStacks[stack_name(p)].live = Template(p)
       /\ Answered(log[p], "describe_stack", "ok")
            => outputs[p] = StackOutputs(stack_name(p), Template(p))

C11_Witness ==
  \E p \in active :
    /\ pc[p] = "done"
    /\ Answered(log[p], "wait_update", "success")
    /\ outputs[p] = StackOutputs(stack_name(p), Template(p))
    /\ prev.pc = "done"
    /\ prev.outputs # outputs[p]

\* the code reference of a template names an object that is stored
RefersToStored(t) == <<t.S3Bucket, t.S3Key>> \in DOMAIN objects

\* C12: whenever a run has submitted create_stack or update_stack, the
\* object whose key is the digest of the run is stored in the bucket named
\* from (account, app) and the template of the run refers to exactly that
\* (bucket, digest); and no template ever handed to a stack, deployed or
\* being deployed, refers to an object that is not stored.
C12_StackRefersToStoredObject ==
  /\ \A p \in active :
       StackCallIssued(log[p])
       => /\ digest[p] = Sha1Whole(args[p].file)
          /\ LocationOf(Account, args[p].app_name, digest[p]) \in DOMAIN objects
          /\ <<Template(p).S3Bucket, Template(p).S3Key>>
               = LocationOf(Account, args[p].app_name, digest[p])
  /\ \A n \in StackNames : \A t \in {cfStacks[n].live, cfStacks[n].target} :
       t # NoTemplate => RefersToStored(t)

C12_Witness ==
  \E p \in active :
    /\ Answered(log[p], "put_object", "ok")
    /\ Answered(log[p], "create_stack", "accepted")
    /\ cfStacks[stack_name(p)].target = Template(p)
    /\ RefersToStored(Template(p))

\* the mutating calls and the answers that report their failure
MutationCalls ==
  {"create_bucket", "put_object", "create_stack", "update_stack"}

MutationFailures ==
  {"error", "exists", "no_bucket", "already_exists", "invalid_state",
   "does_not_exist", "failure", "timeout"}

\* C13: within one run create_bucket is issued at most once, put_object at
\* most once, and create_stack and update_stack together at most once, each
\* followed by at most one wait; a mutating call or a wait that was answered
\* by a failure is the last call of the run, so it is never retried.
C13_MutationsAtMostOnce ==
  \A p \in active :
    /\ NCalls(log[p], "create_bucket") <= 1
    /\ NCalls(log[p], "put_object") <= 1
    /\ NCalls(log[p], "create_stack") + NCalls(log[p], "update_stack") <= 1
    /\ NCalls(log[p], "wait_create") + NCalls(log[p], "wait_update") <= 1
    /\ \A i \in 1 .. Len(log[p]) :
         /\ log[p][i][1] \in MutationCalls \cup {"wait_create", "wait_update"}
         /\ log[p][i][2] \in MutationFailures
         => /\ i = Len(log[p])
            /\ pc[p] = "failed"

C13_Witness ==
  \E p \in active :
    /\ pc[p] = "failed"
    /\ Answered(log[p], "create_bucket", "ok")
    /\ Answered(log[p], "put_object", "ok")
    /\ Answered(log[p], "create_stack", "accepted")
    /\ Answered(log[p], "wait_create", "failure")
    /\ cfStacks[stack_name(p)].status = "CREATE_FAILED"

\* the calls the script issues; none of them deletes or rolls back
ScriptCalls ==
  {"open", "get_caller_identity", "head_bucket", "create_bucket",
   "head_object", "put_object", "describe_subnets", "validate_template",
   "describe_stacks", "update_stack", "wait_update", "create_stack",
   "wait_create", "describe_stack"}

\* the answers after which the script goes on
OkAnswers == {"ok", "200", "404", "accepted", "no_updates", "success"}

\* C14: a step that fails is the last call of its run and the run ends
\* with its error; a failed run has failed at its last call; no run issues
\* a call other than the script's, none of which deletes or rolls back; and
\* the bucket, the object and the stack a run has created are still there,
\* whatever became of the run.
C14_FailFastNoCompensation ==
  \A p \in active :
    /\ \A i \in 1 .. Len(log[p]) :
         /\ log[p][i][1] \in ScriptCalls
         /\ log[p][i][2] \notin OkAnswers
              => /\ i = Len(log[p])
                 /\ pc[p] = "failed"
                 /\ err[p].resp = log[p][i][2]
    /\ pc[p] = "failed"
         => /\ log[p] # <<>>
            /\ log[p][Len(log[p])][2] \notin OkAnswers
            /\ err[p] # NoErr
    /\ Answered(log[p], "create_bucket", "ok") => bucket_name(p) \in buckets
    /\ Answered(log[p], "put_object", "ok")
         => /\ <<bucket_name(p), digest[p]>> \in DOMAIN objects
            /\ objects[<<bucket_name(p), digest[p]>>] = Zip(args[p].file)
    /\ Answered(log[p], "create_stack", "accepted")
         => cfStacks[stack_name(p)].status # "ABSENT"

C14_Witness ==
  \E p \in active :
    /\ pc[p] = "failed"
    /\ Answered(log[p], "create_bucket", "ok")
    /\ Answered(log[p], "put_object", "ok")
    /\ Answered(log[p], "create_stack", "accepted")
    /\ Answered(log[p], "wait_create", "timeout")
    /\ bucket_name(p) \in buckets
    /\ <<bucket_name(p), digest[p]>> \in DOMAIN objects
    /\ cfStacks[stack_name(p)].status = "CREATE_IN_PROGRESS"

\* the call by which the run tried to change the stack was rejected
\* because of what another run had done to the stack in the meantime
Collided(l) ==
  \/ Answered(l, "create_stack", "already_exists")
  \/ Answered(l, "update_stack", "invalid_state")

\* C15: of two runs for the same environment name at most one has its
\* create_stack accepted; a run whose create_stack or update_stack collides
\* with what the other run did or is doing has ended with that error, raised
\* in the create or update branch, has not read the outputs and has not
\* reported success.
C15_CollisionIsFatal ==
  /\ \A p \in active : \A q \in active \ {p} :
       stack_name(p) = stack_name(q)
       => ~ /\ Answered(log[p], "create_stack", "accepted")
            /\ Answered(log[q], "create_stack", "accepted")
  /\ \A p \in active :
       Collided(log[p])
       => /\ pc[p] = "failed"
          /\ err[p].phase \in {"create", "update"}
          /\ err[p].exc = "ClientError"
          /\ err[p].resp \in {"already_exists", "invalid_state"}
          /\ NeverReadOutputs(p)

C15_Witness ==
  \E p \in active : \E q \in active \ {p} :
    /\ stack_name(p) = stack_name(q)
    /\ Answered(log[p], "create_stack", "accepted")
    /\ pc[p] = "wait_create"
    /\ Answered(log[q], "create_stack", "already_exists")
    /\ pc[q] = "failed"

\* the object holds the packaged content of an artifact whose digest is k
ContentAddressed(k, body) ==
  \E f \in Files : Sha1Whole(f) = k /\ body = Zip(f)

Running(p) == pc[p] \notin Ended \cup {"idle"}

\* C17: every run that was started ends: it has printed the address read
\* after its wait succeeded or its update was a no-op, or it has ended with
\* an error (or was killed); in particular no run stays in the wait for
\* its create or update for ever.
C17_EveryRunTerminates ==
  /\ [](\A p \in Procs :
          /\ pc[p] = "done" => outputs[p] # NoOutputs /\ Converged(log[p])
          /\ pc[p] = "failed" => err[p] # NoErr)
  /\ \A p \in Procs : Running(p) ~> (pc[p] \in Ended)

\* the wait of a run ended although the operation it waited for had not
C17_Witness ==
  \E p \in active :
    /\ pc[p] = "failed"
    /\ Answered(log[p], "wait_update", "timeout")
    /\ err[p].exc = "WaiterError"
    /\ cfStacks[stack_name(p)].status = "UPDATE_IN_PROGRESS"

====
